---- MODULE Spec2Model ----
(***************************************************************************)
(* Trip-planner backend: the multi-agent orchestrator                      *)
(* (app/agents/trip_planner_agent.py) and the AMap MCP service in its      *)
(* asynchronous (app/services/amap_service.py) and synchronous             *)
(* (app/services/amap_service_sync.py) variants, the POI API               *)
(* (app/api/routes/poi.py) and the module-level singletons                 *)
(* (app/services/llm_service.py and the accessors of the other modules).   *)
(*                                                                         *)
(* Conventions.  A Python call ends either by returning a value or by      *)
(* raising: Return(v) / Raise(e).  Python's None is the record None.       *)
(* Text is a sequence of character codes.  A date string is the record     *)
(* [fmt, y, m, d]: fmt says whether the text has the shape digits-digits-  *)
(* digits that "%Y-%m-%d" matches, y/m/d are the numbers it spells.        *)
(***************************************************************************)
EXTENDS Integers, Sequences, FiniteSets, TLC

VARIABLES
    request,          \* the TripRequest handed to the orchestrator
    response,         \* the raw reply text handed to _parse_response
    result,           \* [op, json_str, out]: the last orchestrator call
    provider_catalog, \* the tool names the remote provider enumerates
    amap_mcp_tool,    \* amap_service._amap_mcp_tool, the cached tool list
    mcp_tools_dict,   \* asynchronous AmapService.mcp_tools_dict
    pc,               \* plan_trip: the step it is at
    planner_agent,    \* whether self.planner_agent exists on the orchestrator
    attraction_response, weather_response, hotel_response, \* plan_trip locals
    failed,           \* plan_trip: whether a step of the try block raised
    calls,            \* plan_trip: the remote steps completed so far, in order
    scenario,         \* mapping service: the call made and the remote's replies
    sync_tools_dict,  \* synchronous AmapService.mcp_tools_dict
    async_ret,        \* asynchronous service: how the call of scenario ended
    sync_ret,         \* synchronous service: how the call of scenario ended
    http_request,     \* POI API: the request being served
    http_pc,          \* POI API: the step the handler is at
    http_response,    \* POI API: the response, None until the handler ends
    remote_failures,  \* POI API: the remote failures met while serving
    photo_queries,    \* POI API: the get_photo_url calls made, in order
    llm_instance,         \* llm_service._llm_instance
    llm_instance_doubao,  \* llm_service._llm_instance_doubao
    amap_service,         \* amap_service._amap_service
    multi_agent_planner,  \* trip_planner_agent._multi_agent_planner
    constructed,      \* per class, the instances constructed so far
    init_runs,        \* the runs of initialize_agents so far
    history,          \* the accessor calls made and how each ended, in order
    task_pc,          \* per task, where its init_mcp_tools call is
    task_tools,       \* per task, the tool list its get_tools() answered
    connects,         \* the tasks that connected to the provider, in order
    assigns           \* the tasks that assigned _amap_mcp_tool, in order

orch_vars == <<request, response, result>>
svc_vars == <<provider_catalog, amap_mcp_tool, mcp_tools_dict>>
trip_vars == <<pc, planner_agent, attraction_response, weather_response,
               hotel_response, failed, calls>>
amap_vars == <<scenario, sync_tools_dict, async_ret, sync_ret>>

http_vars == <<http_request, http_pc, http_response, remote_failures,
               photo_queries>>
single_vars == <<llm_instance, llm_instance_doubao, amap_service,
                 multi_agent_planner, constructed, init_runs, history>>
race_vars == <<task_pc, task_tools, connects, assigns>>
ext_vars == <<http_vars, single_vars, race_vars>>

vars == <<orch_vars, svc_vars, trip_vars, amap_vars, ext_vars>>

(***************************************************************************)
(* Bounds of the model.                                                    *)
(***************************************************************************)
MaxDays == 3        \* largest travel_days requested / days in an agent reply
MaxChunks == 4      \* pieces a reply text is assembled from

(***************************************************************************)
(* Python values and call outcomes.                                        *)
(***************************************************************************)
None == [none |-> TRUE]
Unset == [unset |-> TRUE]     \* an attribute that was never assigned
\* a Python list; [] is EmptyList
List(x) == [list |-> x]
EmptyList == List(<<>>)
Return(v) == [kind |-> "return", value |-> v]
Raise(e) == [kind |-> "raise", exc |-> e]
Returned(o) == o.kind = "return"
Raised(o) == o.kind = "raise"
NoCall == [op |-> "none", json_str |-> None, out |-> None]

(***************************************************************************)
(* datetime: strptime(s, "%Y-%m-%d"), date + timedelta(days=k), strftime.  *)
(***************************************************************************)
MAXYEAR == 9999

IsLeap(y) == (y % 4 = 0 /\ y % 100 # 0) \/ y % 400 = 0

DaysInMonth(y, m) ==
    IF m = 2 THEN (IF IsLeap(y) THEN 29 ELSE 28)
    ELSE IF m \in {4, 6, 9, 11} THEN 30 ELSE 31

\* strptime accepts exactly the texts of the right shape that spell a real date
StrptimeOk(s) ==
    /\ s.fmt
    /\ s.y \in 1..MAXYEAR
    /\ s.m \in 1..12
    /\ s.d \in 1..DaysInMonth(s.y, s.m)

Strptime(s) == [y |-> s.y, m |-> s.m, d |-> s.d]

NextDay(dt) ==
    IF dt.d < DaysInMonth(dt.y, dt.m) THEN [dt EXCEPT !.d = dt.d + 1]
    ELSE IF dt.m < 12 THEN [dt EXCEPT !.m = dt.m + 1, !.d = 1]
    ELSE [y |-> dt.y + 1, m |-> 1, d |-> 1]

RECURSIVE AddDays(_, _)
AddDays(dt, k) == IF k = 0 THEN dt ELSE NextDay(AddDays(dt, k - 1))

\* date + timedelta raises OverflowError past 9999-12-31
DateOverflow(dt, k) == AddDays(dt, k).y > MAXYEAR

Strftime(dt) == [fmt |-> TRUE, y |-> dt.y, m |-> dt.m, d |-> dt.d]

(***************************************************************************)
(* TripRequest (app/models/schemas.py): the fields are typed, the two      *)
(* dates are plain strings, travel_days is an integer >= 1.                *)
(***************************************************************************)
DateText(y, m, d) == [fmt |-> TRUE, y |-> y, m |-> m, d |-> d]
FreeText == [fmt |-> FALSE, y |-> 0, m |-> 0, d |-> 0]    \* e.g. "tomorrow"

StartDates ==
    { DateText(2024, 2, 28), DateText(2023, 2, 28), DateText(1900, 2, 27),
      DateText(2024, 12, 30), DateText(2024, 4, 30),
      DateText(9999, 12, 30), DateText(9999, 12, 31),
      DateText(2023, 2, 29), DateText(2024, 13, 1), FreeText }

EndDates == { DateText(2024, 5, 3), FreeText }

Cities == {"Beijing", "Shanghai"}
Accommodations == {"budget", "luxury"}
Transportations == {"metro"}
Preferences == { <<>>, <<"history">>, <<"food", "history">> }

Requests ==
    [ city : Cities, start_date : StartDates, end_date : EndDates,
      travel_days : 1..MaxDays, transportation : Transportations,
      accommodation : Accommodations, preferences : Preferences ]

(***************************************************************************)
(* MultiAgentTripPlanner._create_fallback_plan                             *)
(***************************************************************************)
\* a slip: the two offsets exchanged
FallbackLocationSwapped(i, j) ==
    [longitude |-> 116400 + i * 5 + j * 10, latitude |-> 39900 + i * 5 + j * 10]

\* Location(longitude=116.4 + i*0.01 + j*0.005, latitude=39.9 + ...), in thousandths
FallbackLocation(i, j) ==
    [longitude |-> 116400 + i * 10 + j * 5, latitude |-> 39900 + i * 10 + j * 5]

\* Attraction(...) for j in range(2); j here is the 0-based index
FallbackAttraction(req, i, j) ==
    [ name |-> <<req.city, "attraction", j + 1>>,
      address |-> <<req.city, "city">>,
      location |-> FallbackLocation(i, j),
      visit_duration |-> 120,
      description |-> <<"famous attraction of", req.city>>,
      category |-> "attraction",
      ticket_price |-> None ]

FallbackMeals(i) ==
    << [type |-> "breakfast", name |-> <<"day", i + 1, "breakfast">>,
        description |-> "local breakfast", estimated_cost |-> None],
       [type |-> "lunch", name |-> <<"day", i + 1, "lunch">>,
        description |-> "lunch", estimated_cost |-> None],
       [type |-> "dinner", name |-> <<"day", i + 1, "dinner">>,
        description |-> "dinner", estimated_cost |-> None] >>

\* a slip: every day dated start_date + i + 1 days (a 1-based day number)
FallbackDayOffByOne(req, start, i) ==
    [ date |-> Strftime(AddDays(start, i + 1)),
      day_index |-> i,
      description |-> <<"day", i + 1>>,
      transportation |-> req.transportation,
      accommodation |-> req.accommodation,
      hotel |-> None,
      attractions |-> [j \in 1..2 |-> FallbackAttraction(req, i, j - 1)],
      meals |-> FallbackMeals(i) ]

\* DayPlan(...) of loop index i (0-based); start is the parsed start date
FallbackDay(req, start, i) ==
    [ date |-> Strftime(AddDays(start, i)),
      day_index |-> i,
      description |-> <<"day", i + 1>>,
      transportation |-> req.transportation,
      accommodation |-> req.accommodation,
      hotel |-> None,
      attractions |-> [j \in 1..2 |-> FallbackAttraction(req, i, j - 1)],
      meals |-> FallbackMeals(i) ]

FallbackPlan(req) ==
    [ city |-> req.city,
      start_date |-> req.start_date,
      end_date |-> req.end_date,
      days |-> [k \in 1..req.travel_days |->
                    FallbackDay(req, Strptime(req.start_date), k - 1)],
      weather_info |-> <<>>,
      overall_suggestions |-> <<req.city, req.travel_days, "day trip">>,
      budget |-> None ]

\* the whole method: strptime may raise, and so may any date of the loop
CreateFallbackPlan(req) ==
    IF ~StrptimeOk(req.start_date) THEN Raise("ValueError")
    ELSE IF \E i \in 0..(req.travel_days - 1) :
                DateOverflow(Strptime(req.start_date), i)
         THEN Raise("OverflowError")
    ELSE Return(FallbackPlan(req))

(***************************************************************************)
(* Text.  Characters are their code points; a reply text is a sequence of  *)
(* them.  Positions are Python's, counted from 0.                          *)
(***************************************************************************)
Fence == <<96, 96, 96>>                          \* "```"
JsonFence == Fence \o <<106, 115, 111, 110>>     \* "```json"
LBrace == <<123>>                                \* "{"
RBrace == <<125>>                                \* "}"
Blank == <<32>>                                  \* " "
Prose == <<97>>                                  \* any other character
Whitespace == {32, 10, 9, 13}

\* One character standing for the members of a JSON object that has every
\* field TripPlan requires, its "days" array holding k entries.
PlanMembers(k) == <<1000 + k>>
IsPlanMembers(c) == c >= 1000
DayCountOf(c) == c - 1000

\* sub occurs in s at Python position i
OccursAt(s, sub, i) ==
    /\ i >= 0
    /\ i + Len(sub) <= Len(s)
    /\ SubSeq(s, i + 1, i + Len(sub)) = sub

\* sub in s
Contains(s, sub) == \E i \in 0..Len(s) : OccursAt(s, sub, i)

\* s.find(sub, start): the lowest position >= start, -1 when there is none
Find(s, sub, start) ==
    IF \E i \in start..Len(s) : OccursAt(s, sub, i)
    THEN CHOOSE i \in start..Len(s) :
            /\ OccursAt(s, sub, i)
            /\ \A j \in start..(i - 1) : ~OccursAt(s, sub, j)
    ELSE -1

\* s.rfind(sub): the highest position, -1 when there is none
RFind(s, sub) ==
    IF Contains(s, sub)
    THEN CHOOSE i \in 0..Len(s) :
            /\ OccursAt(s, sub, i)
            /\ \A j \in (i + 1)..Len(s) : ~OccursAt(s, sub, j)
    ELSE -1

\* a slice bound as Python normalises it: negative counts from the end
SliceIndex(s, i) ==
    LET n == IF i < 0 THEN i + Len(s) ELSE i
    IN  IF n < 0 THEN 0 ELSE IF n > Len(s) THEN Len(s) ELSE n

\* s[a:b]
Slice(s, a, b) == SubSeq(s, SliceIndex(s, a) + 1, SliceIndex(s, b))

RECURSIVE LStrip(_)
LStrip(s) ==
    IF s # <<>> /\ Head(s) \in Whitespace THEN LStrip(Tail(s)) ELSE s

RECURSIVE RStrip(_)
RStrip(s) ==
    IF s # <<>> /\ s[Len(s)] \in Whitespace
    THEN RStrip(SubSeq(s, 1, Len(s) - 1)) ELSE s

\* s.strip()
Strip(s) == RStrip(LStrip(s))

(***************************************************************************)
(* MultiAgentTripPlanner._parse_response                                   *)
(***************************************************************************)
\* a slip: the plain fence tested before the ```json fence
ExtractJsonFenceFirst(resp) ==
    IF Contains(resp, Fence) THEN
        LET json_start == Find(resp, Fence, 0) + 3
            json_end == Find(resp, Fence, json_start)
        IN  Return(Strip(Slice(resp, json_start, json_end)))
    ELSE IF Contains(resp, JsonFence) THEN
        LET json_start == Find(resp, JsonFence, 0) + 7
            json_end == Find(resp, Fence, json_start)
        IN  Return(Strip(Slice(resp, json_start, json_end)))
    ELSE IF Contains(resp, LBrace) /\ Contains(resp, RBrace) THEN
        LET json_start == Find(resp, LBrace, 0)
            json_end == RFind(resp, RBrace) + 1
        IN  Return(Slice(resp, json_start, json_end))
    ELSE Raise("ValueError")

\* lines 232-246: the text handed to json.loads, or the ValueError
ExtractJson(resp) ==
    IF Contains(resp, JsonFence) THEN
        LET json_start == Find(resp, JsonFence, 0) + 7
            json_end == Find(resp, Fence, json_start)
        IN  Return(Strip(Slice(resp, json_start, json_end)))
    ELSE IF Contains(resp, Fence) THEN
        LET json_start == Find(resp, Fence, 0) + 3
            json_end == Find(resp, Fence, json_start)
        IN  Return(Strip(Slice(resp, json_start, json_end)))
    ELSE IF Contains(resp, LBrace) /\ Contains(resp, RBrace) THEN
        LET json_start == Find(resp, LBrace, 0)
            json_end == RFind(resp, RBrace) + 1
        IN  Return(Slice(resp, json_start, json_end))
    ELSE Raise("ValueError")

\* json.loads over the modelled alphabet: the only documents are an object
\* with no members and an object with the members of a plan, white space
\* allowed around the braces; everything else is no JSON
EmptyObject == [members |-> "none", days |-> 0]
PlanObject(k) == [members |-> "plan", days |-> k]

JsonLoads(text) ==
    LET s == Strip(text)
        inner == Strip(SubSeq(s, 2, Len(s) - 1))
    IN  IF Len(s) < 2 \/ <<s[1]>> # LBrace \/ <<s[Len(s)]>> # RBrace
        THEN Raise("JSONDecodeError")
        ELSE IF inner = <<>> THEN Return(EmptyObject)
        ELSE IF Len(inner) = 1 /\ IsPlanMembers(inner[1])
             THEN Return(PlanObject(DayCountOf(inner[1])))
        ELSE Raise("JSONDecodeError")

\* what the agent wrote into a structurally valid plan of k days
AgentDay(i) ==
    [ date |-> FreeText, day_index |-> i, description |-> <<"agent">>,
      transportation |-> "agent", accommodation |-> "agent", hotel |-> None,
      attractions |-> <<>>, meals |-> <<>> ]

AgentPlan(k) ==
    [ city |-> "agent", start_date |-> FreeText, end_date |-> FreeText,
      days |-> [i \in 1..k |-> AgentDay(i - 1)],
      weather_info |-> <<>>, overall_suggestions |-> <<"agent">>,
      budget |-> None ]

\* TripPlan(**data): the required fields must be there; nothing relates the
\* length of "days" to any request
TripPlanFromData(data) ==
    IF data.members = "plan" THEN Return(AgentPlan(data.days))
    ELSE Raise("ValidationError")

\* lines 229-254, the body of the try
ParseBody(resp) ==
    LET ex == ExtractJson(resp)
    IN  IF Raised(ex) THEN ex
        ELSE LET data == JsonLoads(ex.value)
             IN  IF Raised(data) THEN data ELSE TripPlanFromData(data.value)

\* the whole method: the handler of line 256 calls the fallback generator,
\* and what that raises leaves the method
ParseResponse(resp, req) ==
    LET body == ParseBody(resp)
    IN  IF Returned(body) THEN body ELSE CreateFallbackPlan(req)

(***************************************************************************)
(* The remote mapping provider.  A tool call (tool.arun) raises, or yields *)
(* a payload json.loads rejects, or yields a JSON object, modelled as the  *)
(* record of its fields.  A text holding commas is the sequence of its     *)
(* comma-separated parts; a part is [num, val, pad]: whether it spells a   *)
(* number, the number (in millionths) and how many padding zeros follow.   *)
(***************************************************************************)
AllTools ==
    { "maps_weather", "maps_text_search", "maps_geo", "maps_search_detail",
      "maps_direction_walking", "maps_direction_driving",
      "maps_direction_transit_integrated" }

RaiseReply == [kind |-> "raise"]
GarbledReply == [kind |-> "garbled"]
JsonReply(j) == [kind |-> "json", json |-> j]

\* dict.get(field): None when the field is absent
Get(j, field) == IF field \in DOMAIN j THEN j[field] ELSE None

NumText(v, z) == [num |-> TRUE, val |-> v, pad |-> z]
WordText == [num |-> FALSE, val |-> 0, pad |-> 0]

\* pydantic's float field accepts a text that spells a number
FloatOk(t) == t.num
ToFloat(t) == t.val
\* str(float): the shortest text of the number
FloatStr(x) == NumText(x, 0)

\* an absent or empty city (None / ""): falsy
NoCity == ""

(***************************************************************************)
(* Asynchronous AmapService (amap_service.py).  Every operator yields      *)
(* [invoked, out]: the tool calls made, in order, and how the call ended.  *)
(***************************************************************************)
Done(invoked, out) == [invoked |-> invoked, out |-> out]

\* the name-indexed lookup init_mcp_tools builds from a tool list
Lookup(tools) == [names |-> tools]

\* self.mcp_tools_dict.get(name) ... await tool.arun(arguments) ...
\* json.loads(result[0].get('text')): the decoded payload or what is raised
CallTool(dict, name, reply) ==
    IF dict = Unset THEN Raise("AttributeError")
    ELSE IF name \notin dict.names THEN Raise("ValueError")
    ELSE IF reply.kind = "raise" THEN Raise("ToolException")
    ELSE IF reply.kind = "garbled" THEN Raise("JSONDecodeError")
    ELSE Return(reply.json)

\* the tool call made, if the lookup has the tool
Invocation(dict, name, arguments) ==
    IF dict # Unset /\ name \in dict.names
    THEN << [tool |-> name, arguments |-> arguments] >>
    ELSE << >>

GetWeather(dict, reply, city) ==
    LET weather_json == CallTool(dict, "maps_weather", reply)
        invoked == Invocation(dict, "maps_weather", [city |-> city])
    IN  IF Raised(weather_json) THEN Done(invoked, Return(EmptyList))
        ELSE Done(invoked, Return(Get(weather_json.value, "forecasts")))

SearchPoi(dict, reply, keywords, city, citylimit) ==
    LET arguments == [keywords |-> keywords, city |-> city,
                      citylimit |-> IF citylimit THEN "true" ELSE "false"]
        poi_json == CallTool(dict, "maps_text_search", reply)
        invoked == Invocation(dict, "maps_text_search", arguments)
    IN  IF Raised(poi_json) THEN Done(invoked, Return(EmptyList))
        ELSE Done(invoked, Return(Get(poi_json.value, "pois")))

GetPoiDetail(dict, reply, poi_id) ==
    LET poi_detail_info == CallTool(dict, "maps_search_detail", reply)
        invoked == Invocation(dict, "maps_search_detail", [id |-> poi_id])
    IN  IF Raised(poi_detail_info) THEN Done(invoked, Return([empty |-> TRUE]))
        ELSE Done(invoked, poi_detail_info)

\* lines 216-221: one Location per candidate, or the first exception
GeoCandidateOk(r) ==
    /\ "location" \in DOMAIN r
    /\ Len(r.location) >= 2
    /\ FloatOk(r.location[1])
    /\ FloatOk(r.location[2])

GeoLocation(r) ==
    [longitude |-> ToFloat(r.location[1]), latitude |-> ToFloat(r.location[2])]

GeocodeArguments(address, city) ==
    IF city # NoCity THEN [address |-> address, city |-> city]
    ELSE [address |-> address]

Geocode(dict, reply, address, city) ==
    LET arguments == GeocodeArguments(address, city)
        result_json == CallTool(dict, "maps_geo", reply)
        invoked == Invocation(dict, "maps_geo", arguments)
    IN  IF Raised(result_json) THEN Done(invoked, Return(None))
        ELSE LET results == Get(result_json.value, "results")
             IN  IF results = None THEN Done(invoked, Return(None))
                 ELSE IF \E n \in 1..Len(results.list) :
                              ~GeoCandidateOk(results.list[n])
                      THEN Done(invoked, Return(None))
                 ELSE Done(invoked,
                           Return(List([n \in 1..Len(results.list) |->
                                           GeoLocation(results.list[n])])))

\* a slip: the default of the lookup is the driving tool
RouteToolDefaultDriving(route_type) ==
    IF route_type = "walking" THEN "maps_direction_walking"
    ELSE IF route_type = "driving" THEN "maps_direction_driving"
    ELSE IF route_type = "transit" THEN "maps_direction_transit_integrated"
    ELSE "maps_direction_driving"

\* tool_map.get(route_type, "maps_direction_walking")
RouteTool(route_type) ==
    IF route_type = "walking" THEN "maps_direction_walking"
    ELSE IF route_type = "driving" THEN "maps_direction_driving"
    ELSE IF route_type = "transit" THEN "maps_direction_transit_integrated"
    ELSE "maps_direction_walking"

\* str(loc.longitude) + "," + str(loc.latitude)
LocationStr(loc) == << FloatStr(loc.longitude), FloatStr(loc.latitude) >>

\* lines 163-170
RouteArguments(origin, destination, origin_city, destination_city, route_type) ==
    IF route_type = "transit"
    THEN [origin |-> origin, destination |-> destination,
          city1 |-> origin_city, city2 |-> destination_city]
    ELSE [origin |-> origin, destination |-> destination]

\* geocode(...)[0]: a TypeError on None, an IndexError on an empty list
FirstOk(geos) == geos # None /\ geos # EmptyList

\* lines 173-182 once both addresses are resolved
RouteCall(dict, reply, tool_name, arguments) ==
    LET route_json == CallTool(dict, tool_name, reply)
    IN  IF Raised(route_json) THEN Return(EmptyList)
        ELSE LET route == Get(route_json.value, "route")
             IN  IF route = None THEN Return(EmptyList)
                 ELSE Return(Get(route, "paths"))

\* a slip: the geocode calls and their [0] subscripts ahead of the try
PlanRouteUnguarded(dict, replies, origin_address, origin_city, destination_address, destination_city, route_type) ==
    LET tool_name == RouteTool(route_type)
        g1 == Geocode(dict, replies.origin, origin_address, origin_city)
        g2 == Geocode(dict, replies.destination, destination_address,
                      destination_city)
    IN  IF ~FirstOk(g1.out.value) THEN Done(g1.invoked, Raise("TypeError"))
        ELSE IF ~FirstOk(g2.out.value)
             THEN Done(g1.invoked \o g2.invoked, Raise("TypeError"))
        ELSE LET arguments ==
                     RouteArguments(LocationStr(g1.out.value.list[1]),
                                    LocationStr(g2.out.value.list[1]),
                                    origin_city, destination_city, route_type)
             IN  Done(g1.invoked \o g2.invoked
                          \o Invocation(dict, tool_name, arguments),
                      RouteCall(dict, replies.route, tool_name, arguments))

\* replies: [origin, destination, route], the remote's answer to each call
PlanRoute(dict, replies, origin_address, origin_city, destination_address, destination_city, route_type) ==
    LET tool_name == RouteTool(route_type)
        g1 == Geocode(dict, replies.origin, origin_address, origin_city)
        g2 == Geocode(dict, replies.destination, destination_address,
                      destination_city)
    IN  IF ~FirstOk(g1.out.value) THEN Done(g1.invoked, Return(EmptyList))
        ELSE IF ~FirstOk(g2.out.value)
             THEN Done(g1.invoked \o g2.invoked, Return(EmptyList))
        ELSE LET arguments ==
                     RouteArguments(LocationStr(g1.out.value.list[1]),
                                    LocationStr(g2.out.value.list[1]),
                                    origin_city, destination_city, route_type)
             IN  Done(g1.invoked \o g2.invoked
                          \o Invocation(dict, tool_name, arguments),
                      RouteCall(dict, replies.route, tool_name, arguments))

(***************************************************************************)
(* Synchronous AmapService (amap_service_sync.py): each public method runs *)
(* its inner coroutine with asyncio.run.  The lookup is built by the       *)
(* constructor, so it is never Unset on a constructed service.             *)
(***************************************************************************)
SyncCallTool(dict, name, reply) ==
    IF dict = Unset THEN Raise("AttributeError")
    ELSE IF name \notin dict.names THEN Raise("ValueError")
    ELSE IF reply.kind = "raise" THEN Raise("ToolException")
    ELSE IF reply.kind = "garbled" THEN Raise("JSONDecodeError")
    ELSE Return(reply.json)

SyncGetWeather(dict, reply, city) ==
    LET weather_json == SyncCallTool(dict, "maps_weather", reply)
        invoked == Invocation(dict, "maps_weather", [city |-> city])
    IN  IF Raised(weather_json) THEN Done(invoked, Return(EmptyList))
        ELSE Done(invoked, Return(Get(weather_json.value, "forecasts")))

SyncSearchPoi(dict, reply, keywords, city, citylimit) ==
    LET arguments == [keywords |-> keywords, city |-> city,
                      citylimit |-> IF citylimit THEN "true" ELSE "false"]
        poi_json == SyncCallTool(dict, "maps_text_search", reply)
        invoked == Invocation(dict, "maps_text_search", arguments)
    IN  IF Raised(poi_json) THEN Done(invoked, Return(EmptyList))
        ELSE Done(invoked, Return(Get(poi_json.value, "pois")))

SyncGetPoiDetail(dict, reply, poi_id) ==
    LET poi_detail_info == SyncCallTool(dict, "maps_search_detail", reply)
        invoked == Invocation(dict, "maps_search_detail", [id |-> poi_id])
    IN  IF Raised(poi_detail_info) THEN Done(invoked, Return([empty |-> TRUE]))
        ELSE Done(invoked, poi_detail_info)

SyncGeoCandidateOk(r) ==
    /\ "location" \in DOMAIN r
    /\ Len(r.location) >= 2
    /\ FloatOk(r.location[1])
    /\ FloatOk(r.location[2])

SyncGeoLocation(r) ==
    [longitude |-> ToFloat(r.location[1]), latitude |-> ToFloat(r.location[2])]

SyncGeocodeArguments(address, city) ==
    IF city # NoCity THEN [address |-> address, city |-> city]
    ELSE [address |-> address]

SyncGeocode(dict, reply, address, city) ==
    LET arguments == SyncGeocodeArguments(address, city)
        result_json == SyncCallTool(dict, "maps_geo", reply)
        invoked == Invocation(dict, "maps_geo", arguments)
    IN  IF Raised(result_json) THEN Done(invoked, Return(None))
        ELSE LET results == Get(result_json.value, "results")
             IN  IF results = None THEN Done(invoked, Return(None))
                 ELSE IF \E n \in 1..Len(results.list) :
                              ~SyncGeoCandidateOk(results.list[n])
                      THEN Done(invoked, Return(None))
                 ELSE Done(invoked,
                           Return(List([n \in 1..Len(results.list) |->
                                           SyncGeoLocation(results.list[n])])))

SyncRouteTool(route_type) ==
    IF route_type = "walking" THEN "maps_direction_walking"
    ELSE IF route_type = "driving" THEN "maps_direction_driving"
    ELSE IF route_type = "transit" THEN "maps_direction_transit_integrated"
    ELSE "maps_direction_walking"

SyncRouteArguments(origin, destination, origin_city, destination_city, route_type) ==
    IF route_type = "transit"
    THEN [origin |-> origin, destination |-> destination,
          city1 |-> origin_city, city2 |-> destination_city]
    ELSE [origin |-> origin, destination |-> destination]

\* _play_route_async (lines 147-201): its "addresses" are the resolved texts
SyncPlayRouteAsync(dict, reply, origin_address, origin_city, destination_address, destination_city, route_type) ==
    LET tool_name == SyncRouteTool(route_type)
        arguments == SyncRouteArguments(origin_address, destination_address,
                                    origin_city, destination_city, route_type)
        route_json == SyncCallTool(dict, tool_name, reply)
        invoked == Invocation(dict, tool_name, arguments)
    IN  IF Raised(route_json) THEN Done(invoked, Return(EmptyList))
        ELSE LET route == Get(route_json.value, "route")
             IN  IF route = None THEN Done(invoked, Return(EmptyList))
                 ELSE Done(invoked, Return(Get(route, "paths")))

\* plan_route (lines 203-215): the two geocode calls and the [0] subscripts
\* stand outside every try
SyncPlanRoute(dict, replies, origin_address, origin_city, destination_address, destination_city, route_type) ==
    LET g1 == SyncGeocode(dict, replies.origin, origin_address, origin_city)
        g2 == SyncGeocode(dict, replies.destination, destination_address,
                          destination_city)
    IN  IF g1.out.value = None THEN Done(g1.invoked, Raise("TypeError"))
        ELSE IF g1.out.value = EmptyList THEN Done(g1.invoked, Raise("IndexError"))
        ELSE IF g2.out.value = None
             THEN Done(g1.invoked \o g2.invoked, Raise("TypeError"))
        ELSE IF g2.out.value = EmptyList
             THEN Done(g1.invoked \o g2.invoked, Raise("IndexError"))
        ELSE LET inner == SyncPlayRouteAsync(dict, replies.route,
                              LocationStr(g1.out.value.list[1]), origin_city,
                              LocationStr(g2.out.value.list[1]), destination_city,
                              route_type)
             IN  Done(g1.invoked \o g2.invoked \o inner.invoked, inner.out)

(***************************************************************************)
(* Calls of the mapping service and the remote's behaviour during each.    *)
(***************************************************************************)
Catalogs ==
    { AllTools, {} } \cup { AllTools \ {t} : t \in AllTools }

CandidateA == [location |-> << NumText(116397128, 0), NumText(39916527, 0) >>,
               level |-> "poi"]
CandidateB == [location |-> << NumText(116480000, 4), NumText(39990000, 4) >>,
               level |-> "street"]

WeatherReplies ==
    { RaiseReply, GarbledReply, JsonReply([status |-> "0"]),
      JsonReply([status |-> "1", forecasts |-> List(<< "sunny", "cloudy" >>)]) }

PoiReplies ==
    { RaiseReply, GarbledReply, JsonReply([status |-> "0"]),
      JsonReply([status |-> "1", pois |-> List(<< "poi-1", "poi-2" >>)]) }

DetailReplies ==
    { RaiseReply, GarbledReply, JsonReply([id |-> "B000A8UIN8"]) }

GeoReplies ==
    { RaiseReply, GarbledReply, JsonReply([status |-> "0"]),
      JsonReply([results |-> EmptyList]),
      JsonReply([results |-> List(<< CandidateA >>)]),
      JsonReply([results |-> List(<< CandidateB, CandidateA >>)]),
      JsonReply([results |-> List(<< [location |-> << WordText, WordText >>,
                                      level |-> "poi"] >>)]),
      JsonReply([results |-> List(<< [level |-> "poi"] >>)]) }

RouteReplies ==
    { RaiseReply, GarbledReply, JsonReply([status |-> "0"]),
      JsonReply([route |-> [origin |-> "o"]]),
      JsonReply([route |-> [paths |-> List(<< "path-1" >>)]]) }

RouteTypes == { "walking", "driving", "transit", "teleport" }

WeatherScenarios ==
    [ op : {"get_weather"}, city : {"Beijing"}, reply : WeatherReplies ]

PoiScenarios ==
    [ op : {"search_poi"}, keywords : {"museum"}, city : {"Beijing"},
      citylimit : BOOLEAN, reply : PoiReplies ]

DetailScenarios ==
    [ op : {"get_poi_detail"}, poi_id : {"B000A8UIN8"}, reply : DetailReplies ]

GeocodeScenarios ==
    [ op : {"geocode"}, address : {"Tiananmen"}, city : {"Beijing", NoCity},
      reply : GeoReplies ]

RouteScenarios ==
    [ op : {"plan_route"}, origin_address : {"Tiananmen"},
      origin_city : {"Beijing"}, destination_address : {"The Bund"},
      destination_city : {"Shanghai"}, route_type : RouteTypes,
      replies : [origin : GeoReplies, destination : GeoReplies,
                 route : RouteReplies] ]

Scenarios ==
    WeatherScenarios \cup PoiScenarios \cup DetailScenarios
        \cup GeocodeScenarios \cup RouteScenarios

(***************************************************************************)
(* Reply texts: every concatenation of at most MaxChunks of these pieces.  *)
(* Object(k) is the text of a JSON object that is a valid plan of k days.  *)
(***************************************************************************)
Object(k) == LBrace \o PlanMembers(k) \o RBrace

Chunks == { JsonFence, Fence, LBrace, RBrace, Blank, Prose, Object(1), Object(2) }

RECURSIVE Texts(_)
Texts(n) ==
    IF n = 0 THEN { <<>> }
    ELSE LET shorter == Texts(n - 1)
         IN  shorter \cup { t \o c : t \in shorter, c \in Chunks }

Responses == Texts(MaxChunks)

\* the requests the parser is exercised with: a start date strptime accepts,
\* one it rejects, and the last date datetime can hold
ParseRequests ==
    { r \in Requests :
        /\ r.city = "Beijing" /\ r.travel_days = 2
        /\ r.accommodation = "budget" /\ r.preferences = <<>>
        /\ r.end_date = FreeText
        /\ r.start_date \in { DateText(2024, 2, 28), FreeText,
                              DateText(9999, 12, 31) } }

(***************************************************************************)
(* Idle values of the state each specification leaves alone.               *)
(***************************************************************************)
NoScenario == [op |-> "none"]

SvcIdle ==
    /\ provider_catalog = AllTools
    /\ amap_mcp_tool = None
    /\ mcp_tools_dict = Unset

TripIdle ==
    /\ pc = "idle"
    /\ planner_agent = TRUE
    /\ attraction_response = Unset
    /\ weather_response = Unset
    /\ hotel_response = Unset
    /\ failed = FALSE
    /\ calls = <<>>

AmapIdle ==
    /\ scenario = NoScenario
    /\ sync_tools_dict = Unset
    /\ async_ret = None
    /\ sync_ret = None

NoHttpRequest == [route |-> "none"]

HttpIdle ==
    /\ http_request = NoHttpRequest
    /\ http_pc = "idle"
    /\ http_response = None
    /\ remote_failures = {}
    /\ photo_queries = <<>>

\* the classes the singleton accessors instantiate
Classes == { "HelloAgentsLLM", "ChatOpenAI", "AmapService",
             "MultiAgentTripPlanner" }

\* no accessor called yet: lines 11 and 37 of llm_service.py, line 260 of
\* amap_service.py, line 309 of trip_planner_agent.py
SingleIdle ==
    /\ llm_instance = None
    /\ llm_instance_doubao = None
    /\ amap_service = None
    /\ multi_agent_planner = None
    /\ constructed = [c \in Classes |-> 0]
    /\ init_runs = 0
    /\ history = <<>>

\* the tasks that may call init_mcp_tools at the same time
Tasks == { "task_a", "task_b" }

RaceIdle ==
    /\ task_pc = [t \in Tasks |-> "idle"]
    /\ task_tools = [t \in Tasks |-> None]
    /\ connects = <<>>
    /\ assigns = <<>>

ExtIdle == HttpIdle /\ SingleIdle /\ RaceIdle

(***************************************************************************)
(* SpecFallback: _create_fallback_plan applied to every request.           *)
(***************************************************************************)
InitFallback ==
    /\ request \in Requests
    /\ response = <<>>
    /\ result = NoCall
    /\ SvcIdle
    /\ TripIdle
    /\ AmapIdle
    /\ ExtIdle

CallCreateFallbackPlan ==
    /\ result = NoCall
    /\ result' = [op |-> "_create_fallback_plan", json_str |-> None,
                  out |-> CreateFallbackPlan(request)]
    /\ UNCHANGED <<request, response, svc_vars, trip_vars, amap_vars, ext_vars>>

NextFallback == CallCreateFallbackPlan

SpecFallback == InitFallback /\ [][NextFallback]_vars

(***************************************************************************)
(* SpecParse: _parse_response applied to every reply text.                 *)
(***************************************************************************)
InitParse ==
    /\ request \in ParseRequests
    /\ response \in Responses
    /\ result = NoCall
    /\ SvcIdle
    /\ TripIdle
    /\ AmapIdle
    /\ ExtIdle

\* json_str records the local of that name (line 249) or the extraction error
CallParseResponse ==
    /\ result = NoCall
    /\ result' = [op |-> "_parse_response", json_str |-> ExtractJson(response),
                  out |-> ParseResponse(response, request)]
    /\ UNCHANGED <<request, response, svc_vars, trip_vars, amap_vars, ext_vars>>

NextParse == CallParseResponse

SpecParse == InitParse /\ [][NextParse]_vars

(***************************************************************************)
(* Spec: MultiAgentTripPlanner.plan_trip, one action per step between two  *)
(* awaits.  An exception anywhere in the try block reaches the handler of  *)
(* line 176, which returns _create_fallback_plan(request).                 *)
(***************************************************************************)
TripRequests ==
    { r \in Requests :
        /\ r.start_date \in { DateText(2024, 2, 28), FreeText,
                              DateText(9999, 12, 31) }
        /\ r.end_date = DateText(2024, 5, 3)
        /\ r.preferences \in { <<>>, <<"food", "history">> } }

TripCatalogs ==
    { AllTools, AllTools \ {"maps_text_search"}, AllTools \ {"maps_weather"} }

\* what planner_agent.invoke does: it raises, or its reply holds no
\* message, or the last message holds a text
AgentReplyTexts ==
    { Prose, Object(1), JsonFence \o LBrace \o RBrace \o Fence,
      JsonFence \o Prose \o Fence }
        \cup { JsonFence \o Object(k) \o Fence : k \in 1..MaxDays }

AgentOutcomes ==
    { [kind |-> "raise"], [kind |-> "no_messages"] }
        \cup [ kind : {"text"}, content : AgentReplyTexts ]

Init ==
    /\ request \in TripRequests
    /\ response = <<>>
    /\ result = NoCall
    /\ provider_catalog \in TripCatalogs
    /\ amap_mcp_tool = None
    /\ mcp_tools_dict = Unset
    /\ pc = "idle"
    /\ planner_agent \in BOOLEAN
    /\ attraction_response = Unset
    /\ weather_response = Unset
    /\ hotel_response = Unset
    /\ failed = FALSE
    /\ calls = <<>>
    /\ AmapIdle
    /\ ExtIdle

\* the handler of lines 176-180
PlanTripHandler ==
    /\ failed' = TRUE
    /\ result' = [op |-> "plan_trip", json_str |-> None,
                  out |-> CreateFallbackPlan(request)]
    /\ pc' = "done"

\* lines 139-140, get_amap_mcp_tool finding or filling the cache
PlanTripInitMcpTools ==
    /\ pc = "idle"
    /\ LET tools == IF amap_mcp_tool = None THEN [tools |-> provider_catalog]
                    ELSE amap_mcp_tool
       IN  /\ amap_mcp_tool' = tools
           /\ mcp_tools_dict' = Lookup(tools.tools)
    /\ calls' = Append(calls, [step |-> "init_mcp_tools"])
    /\ pc' = "search_attractions"
    /\ UNCHANGED <<orch_vars, provider_catalog, planner_agent,
                   attraction_response, weather_response, hotel_response,
                   failed, amap_vars, ext_vars>>

\* lines 139-140, the provider failing while the tool list is fetched
PlanTripInitMcpToolsFails ==
    /\ pc = "idle"
    /\ amap_mcp_tool = None
    /\ PlanTripHandler
    /\ UNCHANGED <<request, response, svc_vars, planner_agent,
                   attraction_response, weather_response, hotel_response,
                   calls, amap_vars, ext_vars>>

\* request.preferences[0] if request.preferences else the literal of line 143
AttractionKeywords(req) ==
    IF req.preferences # <<>> THEN req.preferences[1] ELSE "attraction"

\* a slip: the literal of line 153 as an f-string
HotelKeywordsInterpolated(req) ==
    IF req.accommodation = "luxury" THEN "luxury hotel" ELSE "budget hotel"

\* the literal of line 153: no f prefix, so nothing is interpolated
HotelKeywords(req) == "{request.accommodation}hotel"

\* a slip: the weather query left out
PlanTripSearchAttractionsThenHotels ==
    /\ pc = "search_attractions"
    /\ \E reply \in PoiReplies :
          LET r == SearchPoi(mcp_tools_dict, reply, AttractionKeywords(request),
                             request.city, TRUE)
          IN  /\ attraction_response' = r.out.value
              /\ calls' = Append(calls, [step |-> "search_poi",
                                         keywords |-> AttractionKeywords(request),
                                         city |-> request.city])
    /\ pc' = "search_hotels"
    /\ UNCHANGED <<orch_vars, svc_vars, planner_agent, weather_response,
                   hotel_response, failed, amap_vars, ext_vars>>

\* line 143
PlanTripSearchAttractions ==
    /\ pc = "search_attractions"
    /\ \E reply \in PoiReplies :
          LET r == SearchPoi(mcp_tools_dict, reply, AttractionKeywords(request),
                             request.city, TRUE)
          IN  /\ attraction_response' = r.out.value
              /\ calls' = Append(calls, [step |-> "search_poi",
                                         keywords |-> AttractionKeywords(request),
                                         city |-> request.city])
    /\ pc' = "get_weather"
    /\ UNCHANGED <<orch_vars, svc_vars, planner_agent, weather_response,
                   hotel_response, failed, amap_vars, ext_vars>>

\* line 148
PlanTripGetWeather ==
    /\ pc = "get_weather"
    /\ \E reply \in WeatherReplies :
          LET r == GetWeather(mcp_tools_dict, reply, request.city)
          IN  /\ weather_response' = r.out.value
              /\ calls' = Append(calls, [step |-> "get_weather",
                                         city |-> request.city])
    /\ pc' = "search_hotels"
    /\ UNCHANGED <<orch_vars, svc_vars, planner_agent, attraction_response,
                   hotel_response, failed, amap_vars, ext_vars>>

\* line 153
PlanTripSearchHotels ==
    /\ pc = "search_hotels"
    /\ \E reply \in PoiReplies :
          LET r == SearchPoi(mcp_tools_dict, reply, HotelKeywords(request),
                             request.city, TRUE)
          IN  /\ hotel_response' = r.out.value
              /\ calls' = Append(calls, [step |-> "search_poi",
                                         keywords |-> HotelKeywords(request),
                                         city |-> request.city])
    /\ pc' = "invoke_agent"
    /\ UNCHANGED <<orch_vars, svc_vars, planner_agent, attraction_response,
                   weather_response, failed, amap_vars, ext_vars>>

\* lines 159-174 with an agent that answers with a text: the plan
\* _parse_response returns is returned; what it raises reaches the handler
PlanTripInvokeAgent ==
    /\ pc = "invoke_agent"
    /\ planner_agent
    /\ \E reply \in AgentOutcomes :
          /\ reply.kind = "text"
          /\ LET trip_plan == ParseResponse(reply.content, request)
             IN  IF Returned(trip_plan)
                 THEN /\ result' = [op |-> "plan_trip",
                                    json_str |-> ExtractJson(reply.content),
                                    out |-> trip_plan]
                      /\ failed' = Raised(ParseBody(reply.content))
                      /\ pc' = "done"
                 ELSE PlanTripHandler
          /\ response' = reply.content
          /\ calls' = Append(calls, [step |-> "planner_agent.invoke"])
    /\ UNCHANGED <<request, svc_vars, planner_agent, attraction_response,
                   weather_response, hotel_response, amap_vars, ext_vars>>

\* lines 161-168 raising: no planner_agent attribute (AttributeError), invoke
\* raising, or messages[-1] on an empty list (IndexError)
PlanTripInvokeAgentFails ==
    /\ pc = "invoke_agent"
    /\ \/ ~planner_agent /\ UNCHANGED calls
       \/ /\ planner_agent
          /\ \E reply \in AgentOutcomes : reply.kind # "text"
          /\ calls' = Append(calls, [step |-> "planner_agent.invoke"])
    /\ PlanTripHandler
    /\ UNCHANGED <<request, response, svc_vars, planner_agent,
                   attraction_response, weather_response, hotel_response,
                   amap_vars, ext_vars>>

Next ==
    \/ PlanTripInitMcpTools
    \/ PlanTripInitMcpToolsFails
    \/ PlanTripSearchAttractions
    \/ PlanTripGetWeather
    \/ PlanTripSearchHotels
    \/ PlanTripInvokeAgent
    \/ PlanTripInvokeAgentFails

Spec == Init /\ [][Next]_vars

(***************************************************************************)
(* SpecAmap: one call of the mapping service, made on the asynchronous     *)
(* service and on the synchronous one against the same remote behaviour.   *)
(***************************************************************************)
InitAmap ==
    /\ request \in { r \in ParseRequests : r.start_date = FreeText }
    /\ response = <<>>
    /\ result = NoCall
    /\ provider_catalog \in Catalogs
    /\ amap_mcp_tool = None
    /\ mcp_tools_dict = Unset
    /\ TripIdle
    /\ scenario \in Scenarios
    /\ sync_tools_dict = Lookup(provider_catalog)   \* built by __init__
    /\ async_ret = None
    /\ sync_ret = None
    /\ ExtIdle

\* init_mcp_tools (lines 50-55) with get_amap_mcp_tool (lines 23-39)
AsyncInitMcpTools ==
    /\ mcp_tools_dict = Unset
    /\ LET tools == IF amap_mcp_tool = None THEN [tools |-> provider_catalog]
                    ELSE amap_mcp_tool
       IN  /\ amap_mcp_tool' = tools
           /\ mcp_tools_dict' = Lookup(tools.tools)
    /\ UNCHANGED <<orch_vars, provider_catalog, trip_vars, amap_vars, ext_vars>>

\* how a call ended, with the lookup it ran against
Ended(r, dict) == [invoked |-> r.invoked, out |-> r.out, lookup |-> dict]

AsyncCall(op, r) ==
    /\ scenario.op = op
    /\ async_ret = None
    /\ async_ret' = Ended(r, mcp_tools_dict)
    /\ UNCHANGED <<orch_vars, svc_vars, trip_vars, scenario, sync_tools_dict,
                   sync_ret, ext_vars>>

SyncCall(op, r) ==
    /\ scenario.op = op
    /\ sync_ret = None
    /\ sync_ret' = Ended(r, sync_tools_dict)
    /\ UNCHANGED <<orch_vars, svc_vars, trip_vars, scenario, sync_tools_dict,
                   async_ret, ext_vars>>

AsyncGetWeather ==
    /\ scenario.op = "get_weather"
    /\ AsyncCall("get_weather",
                 GetWeather(mcp_tools_dict, scenario.reply, scenario.city))

AsyncSearchPoi ==
    /\ scenario.op = "search_poi"
    /\ AsyncCall("search_poi",
                 SearchPoi(mcp_tools_dict, scenario.reply, scenario.keywords,
                           scenario.city, scenario.citylimit))

AsyncGeocode ==
    /\ scenario.op = "geocode"
    /\ AsyncCall("geocode",
                 Geocode(mcp_tools_dict, scenario.reply, scenario.address,
                         scenario.city))

AsyncGetPoiDetail ==
    /\ scenario.op = "get_poi_detail"
    /\ AsyncCall("get_poi_detail",
                 GetPoiDetail(mcp_tools_dict, scenario.reply, scenario.poi_id))

AsyncPlanRoute ==
    /\ scenario.op = "plan_route"
    /\ AsyncCall("plan_route",
                 PlanRoute(mcp_tools_dict, scenario.replies,
                           scenario.origin_address, scenario.origin_city,
                           scenario.destination_address,
                           scenario.destination_city, scenario.route_type))

SyncGetWeatherCall ==
    /\ scenario.op = "get_weather"
    /\ SyncCall("get_weather",
                SyncGetWeather(sync_tools_dict, scenario.reply, scenario.city))

SyncSearchPoiCall ==
    /\ scenario.op = "search_poi"
    /\ SyncCall("search_poi",
                SyncSearchPoi(sync_tools_dict, scenario.reply, scenario.keywords,
                              scenario.city, scenario.citylimit))

SyncGeocodeCall ==
    /\ scenario.op = "geocode"
    /\ SyncCall("geocode",
                SyncGeocode(sync_tools_dict, scenario.reply, scenario.address,
                            scenario.city))

SyncGetPoiDetailCall ==
    /\ scenario.op = "get_poi_detail"
    /\ SyncCall("get_poi_detail",
                SyncGetPoiDetail(sync_tools_dict, scenario.reply,
                                 scenario.poi_id))

SyncPlanRouteCall ==
    /\ scenario.op = "plan_route"
    /\ SyncCall("plan_route",
                SyncPlanRoute(sync_tools_dict, scenario.replies,
                              scenario.origin_address, scenario.origin_city,
                              scenario.destination_address,
                              scenario.destination_city, scenario.route_type))

NextAmap ==
    \/ AsyncInitMcpTools
    \/ AsyncGetWeather
    \/ AsyncSearchPoi
    \/ AsyncGeocode
    \/ AsyncGetPoiDetail
    \/ AsyncPlanRoute
    \/ SyncGetWeatherCall
    \/ SyncSearchPoiCall
    \/ SyncGeocodeCall
    \/ SyncGetPoiDetailCall
    \/ SyncPlanRouteCall

SpecAmap == InitAmap /\ [][NextAmap]_vars

(***************************************************************************)
(* SpecPoi: the POI API (api/routes/poi.py) serving one request, on a      *)
(* process whose tool-list cache is still empty or was filled by an        *)
(* earlier request.  A response is [status, body] or, for an               *)
(* HTTPException, [status, detail]; a detail f"{prefix}: {str(e)}" is the  *)
(* pair of its prefix and the error text.                                  *)
(***************************************************************************)
\* a new instance of a class, told apart from the earlier ones by its number
NewInstance(class) == [class |-> class, id |-> constructed[class] + 1]

\* get_amap_service (amap_service.py lines 263-270)
GetAmapService ==
    IF amap_service = None
    THEN /\ amap_service' = NewInstance("AmapService")
         /\ constructed' = [constructed EXCEPT !["AmapService"] = @ + 1]
    ELSE UNCHANGED <<amap_service, constructed>>

SearchFailedPrefix == "search POI failed"
PhotoFailedPrefix == "get attraction photo failed"

\* a slip: the detail is the error text alone
HttpExceptionBare(status, prefix, e) == [status |-> status, detail |-> <<e>>]

HttpException(status, prefix, e) == [status |-> status, detail |-> <<prefix, e>>]
Ok(body) == [status |-> 200, body |-> body]

\* POISearchResponse(success=True, message=..., data=result): the envelope
\* of a sequence; whether a data of None is accepted is not determined, so
\* both the envelope and the validation error are possible
POISearchResponse(data) ==
    IF data = None
    THEN { Return([success |-> TRUE, message |-> "search succeeded",
                   data |-> None]),
           Raise("ValidationError") }
    ELSE { Return([success |-> TRUE, message |-> "search succeeded",
                   data |-> data]) }

SearchRequests ==
    [ route : {"search"}, keywords : {"museum", "hotel"},
      city : {"Beijing", "Shanghai"} ]

PhotoNames == { "Forbidden City", "Great Wall" }
PhotoRequests == [ route : {"photo"}, name : PhotoNames ]

\* get_photo_url(query): a URL, None, or an error of the photo provider
PhotoUrls == { [url |-> "https://img/1"], [url |-> "https://img/2"] }
PhotoOutcomes == { Return(u) : u \in PhotoUrls } \cup { Return(None), Raise("HTTPError") }

\* f"{name} China landmark" and the bare name
LandmarkQuery(name) == << name, " China landmark" >>
\* a slip: the retry repeats the first query
BareQueryRepeats(name) == LandmarkQuery(name)
BareQuery(name) == << name >>

PoiCatalogs == { AllTools, AllTools \ {"maps_text_search"}, {} }

InitPoi ==
    /\ request \in { r \in ParseRequests : r.start_date = FreeText }
    /\ response = <<>>
    /\ result = NoCall
    /\ provider_catalog \in PoiCatalogs
    /\ TripIdle
    /\ AmapIdle
    /\ http_request \in SearchRequests \cup PhotoRequests
    /\ http_pc = "idle"
    /\ http_response = None
    /\ remote_failures = {}
    /\ photo_queries = <<>>
    /\ llm_instance = None
    /\ llm_instance_doubao = None
    /\ multi_agent_planner = None
    /\ init_runs = 0
    /\ history = <<>>
    /\ RaceIdle
    /\ \/ /\ amap_service = None               \* the first request served
          /\ constructed = [c \in Classes |-> 0]
          /\ amap_mcp_tool = None
          /\ mcp_tools_dict = Unset
       \/ /\ amap_service = [class |-> "AmapService", id |-> 1]
          /\ constructed = [c \in Classes |->
                               IF c = "AmapService" THEN 1 ELSE 0]
          /\ amap_mcp_tool = [tools |-> provider_catalog]
          /\ mcp_tools_dict = Lookup(provider_catalog)

\* poi.py lines 69-70: get_amap_service, then init_mcp_tools finding or
\* filling the tool-list cache
PoiSearchInitMcpTools ==
    /\ http_request.route = "search"
    /\ http_pc = "idle"
    /\ GetAmapService
    /\ LET tools == IF amap_mcp_tool = None THEN [tools |-> provider_catalog]
                    ELSE amap_mcp_tool
       IN  /\ amap_mcp_tool' = tools
           /\ mcp_tools_dict' = Lookup(tools.tools)
    /\ http_pc' = "search_poi"
    /\ UNCHANGED <<orch_vars, provider_catalog, trip_vars, amap_vars,
                   http_request, http_response, remote_failures,
                   photo_queries, llm_instance, llm_instance_doubao,
                   multi_agent_planner, init_runs, history, race_vars>>

\* poi.py lines 69-70 and 80-85: the provider failing while the tool list is
\* fetched; the exception reaches the handler's except
PoiSearchInitMcpToolsFails ==
    /\ http_request.route = "search"
    /\ http_pc = "idle"
    /\ amap_mcp_tool = None
    /\ GetAmapService
    /\ remote_failures' = remote_failures \cup {"discovery"}
    /\ http_response' = HttpException(500, SearchFailedPrefix, "ToolException")
    /\ http_pc' = "done"
    /\ UNCHANGED <<orch_vars, svc_vars, trip_vars, amap_vars, http_request,
                   photo_queries, llm_instance, llm_instance_doubao,
                   multi_agent_planner, init_runs, history, race_vars>>

\* the remote failure a reply of maps_text_search is, if the tool is called
SearchFailure(dict, reply) ==
    IF "maps_text_search" \notin dict.names THEN {}
    ELSE IF reply.kind = "raise" THEN {"invocation"}
    ELSE IF reply.kind = "garbled" THEN {"decoding"}
    ELSE {}

\* poi.py lines 72-85
PoiSearchCall ==
    /\ http_request.route = "search"
    /\ http_pc = "search_poi"
    /\ \E reply \in PoiReplies :
          LET r == SearchPoi(mcp_tools_dict, reply, http_request.keywords,
                             http_request.city, TRUE)
          IN  /\ remote_failures' =
                     remote_failures \cup SearchFailure(mcp_tools_dict, reply)
              /\ \E envelope \in POISearchResponse(r.out.value) :
                    http_response' =
                        IF Returned(envelope) THEN Ok(envelope.value)
                        ELSE HttpException(500, SearchFailedPrefix, envelope.exc)
    /\ http_pc' = "done"
    /\ UNCHANGED <<orch_vars, svc_vars, trip_vars, amap_vars, http_request,
                   photo_queries, single_vars, race_vars>>

PhotoEnvelope(name, photo_url) ==
    Ok([success |-> TRUE, message |-> "photo found",
        data |-> [name |-> name, photo_url |-> photo_url]])

\* poi.py lines 104-109 and 113-127: the first query
PhotoFirstQuery ==
    /\ http_request.route = "photo"
    /\ http_pc = "idle"
    /\ \E out \in PhotoOutcomes :
          /\ photo_queries' = Append(photo_queries,
                 [query |-> LandmarkQuery(http_request.name), out |-> out])
          /\ IF Raised(out)
             THEN /\ http_response' = HttpException(500, PhotoFailedPrefix, out.exc)
                  /\ http_pc' = "done"
             ELSE IF out.value = None           \* not photo_url
             THEN /\ http_pc' = "second_query"
                  /\ UNCHANGED http_response
             ELSE /\ http_response' = PhotoEnvelope(http_request.name, out.value)
                  /\ http_pc' = "done"
    /\ UNCHANGED <<orch_vars, svc_vars, trip_vars, amap_vars, http_request,
                   remote_failures, single_vars, race_vars>>

\* poi.py lines 111-127: the query with the bare name
PhotoSecondQuery ==
    /\ http_request.route = "photo"
    /\ http_pc = "second_query"
    /\ \E out \in PhotoOutcomes :
          /\ photo_queries' = Append(photo_queries,
                 [query |-> BareQuery(http_request.name), out |-> out])
          /\ http_response' =
                 IF Raised(out)
                 THEN HttpException(500, PhotoFailedPrefix, out.exc)
                 ELSE PhotoEnvelope(http_request.name, out.value)
    /\ http_pc' = "done"
    /\ UNCHANGED <<orch_vars, svc_vars, trip_vars, amap_vars, http_request,
                   remote_failures, single_vars, race_vars>>

NextPoi ==
    \/ PoiSearchInitMcpTools
    \/ PoiSearchInitMcpToolsFails
    \/ PoiSearchCall
    \/ PhotoFirstQuery
    \/ PhotoSecondQuery

SpecPoi == InitPoi /\ [][NextPoi]_vars

(***************************************************************************)
(* SpecSingletons: the module-level singletons and their accessors         *)
(* (llm_service.py, amap_service.py lines 259-270, trip_planner_agent.py   *)
(* lines 95-116 and 308-319), called one after another in any order.  An   *)
(* instance is [class, id]; the accessors are operators on the record of   *)
(* the module globals, so that one accessor can call another.              *)
(***************************************************************************)
MaxCalls == 5       \* accessor calls made in one run

Globals ==
    [ llm |-> llm_instance, doubao |-> llm_instance_doubao,
      planner |-> multi_agent_planner, agent |-> planner_agent,
      constructed |-> constructed, init_runs |-> init_runs ]

\* Class(): the instance and the globals after the constructor ran
Construct(g, class) ==
    [ instance |-> [class |-> class, id |-> g.constructed[class] + 1],
      g |-> [g EXCEPT !.constructed[class] = @ + 1] ]

Outcome(g, out) == [g |-> g, out |-> out]

\* a slip: get_llm constructs on every call
GetLlmUncached(g, ctor_ok) ==
    IF ctor_ok
    THEN LET c == Construct(g, "HelloAgentsLLM")
         IN  Outcome([c.g EXCEPT !.llm = c.instance], Return(c.instance))
    ELSE Outcome(g, Raise("LLMError"))

\* get_llm (llm_service.py lines 14-34); ctor_ok: HelloAgentsLLM() returns
GetLlm(g, ctor_ok) ==
    IF g.llm = None
    THEN IF ctor_ok
         THEN LET c == Construct(g, "HelloAgentsLLM")
              IN  Outcome([c.g EXCEPT !.llm = c.instance], Return(c.instance))
         ELSE Outcome(g, Raise("LLMError"))
    ELSE Outcome(g, Return(g.llm))

\* get_llm_DouBao (lines 39-52); ctor_ok: ChatOpenAI(...) returns
GetLlmDouBao(g, ctor_ok) ==
    IF g.doubao = None               \* not _llm_instance_doubao
    THEN IF ctor_ok
         THEN LET c == Construct(g, "ChatOpenAI")
              IN  Outcome([c.g EXCEPT !.doubao = c.instance], Return(c.instance))
         ELSE Outcome(g, Raise("OpenAIError"))
    ELSE Outcome(g, Return(g.doubao))

\* a slip: reset_llm clears both handles
ResetLlmBoth(g) == Outcome([g EXCEPT !.llm = None, !.doubao = None], Return(None))

\* reset_llm (lines 55-58)
ResetLlm(g) == Outcome([g EXCEPT !.llm = None], Return(None))

\* MultiAgentTripPlanner() (trip_planner_agent.py lines 95-99)
NewPlanner(g, llm_ok, doubao_ok) ==
    LET a == GetLlm(g, llm_ok)
        b == GetLlmDouBao(a.g, doubao_ok)
    IN  IF Raised(a.out) THEN a
        ELSE IF Raised(b.out) THEN b
        ELSE LET c == Construct(b.g, "MultiAgentTripPlanner")
             IN  Outcome(c.g, Return(c.instance))

\* initialize_agents (lines 102-116); agent_ok: create_agent returns
InitializeAgents(g, agent_ok) ==
    LET ran == [g EXCEPT !.init_runs = @ + 1]
    IN  IF agent_ok THEN Outcome([ran EXCEPT !.agent = TRUE], Return(None))
        ELSE Outcome(ran, Raise("AgentError"))

\* get_trip_planner_agent (lines 312-319): the instance is assigned to the
\* global before initialize_agents is awaited
GetTripPlannerAgent(g, llm_ok, doubao_ok, agent_ok) ==
    IF g.planner = None
    THEN LET made == NewPlanner(g, llm_ok, doubao_ok)
         IN  IF Raised(made.out) THEN made
             ELSE LET cached == [made.g EXCEPT !.planner = made.out.value]
                      init == InitializeAgents(cached, agent_ok)
                  IN  IF Raised(init.out) THEN init
                      ELSE Outcome(init.g, Return(init.g.planner))
    ELSE Outcome(g, Return(g.planner))

InitSingletons ==
    /\ request \in { r \in ParseRequests : r.start_date = FreeText }
    /\ response = <<>>
    /\ result = NoCall
    /\ SvcIdle
    /\ pc = "idle"
    /\ planner_agent = FALSE
    /\ attraction_response = Unset
    /\ weather_response = Unset
    /\ hotel_response = Unset
    /\ failed = FALSE
    /\ calls = <<>>
    /\ AmapIdle
    /\ HttpIdle
    /\ SingleIdle
    /\ RaceIdle

\* the globals and the history after a call of fn that ended as o
Called(fn, o) ==
    /\ llm_instance' = o.g.llm
    /\ llm_instance_doubao' = o.g.doubao
    /\ multi_agent_planner' = o.g.planner
    /\ planner_agent' = o.g.agent
    /\ constructed' = o.g.constructed
    /\ init_runs' = o.g.init_runs
    /\ history' = Append(history, [fn |-> fn, out |-> o.out])
    /\ UNCHANGED <<orch_vars, svc_vars, pc, attraction_response,
                   weather_response, hotel_response, failed, calls,
                   amap_vars, http_vars, amap_service, race_vars>>

CallGetLlm ==
    /\ Len(history) < MaxCalls
    /\ \E ctor_ok \in BOOLEAN : Called("get_llm", GetLlm(Globals, ctor_ok))

CallGetLlmDouBao ==
    /\ Len(history) < MaxCalls
    /\ \E ctor_ok \in BOOLEAN :
          Called("get_llm_DouBao", GetLlmDouBao(Globals, ctor_ok))

CallResetLlm ==
    /\ Len(history) < MaxCalls
    /\ Called("reset_llm", ResetLlm(Globals))

CallGetTripPlannerAgent ==
    /\ Len(history) < MaxCalls
    /\ \E llm_ok, doubao_ok, agent_ok \in BOOLEAN :
          Called("get_trip_planner_agent",
                 GetTripPlannerAgent(Globals, llm_ok, doubao_ok, agent_ok))

\* get_amap_service (amap_service.py lines 263-270)
CallGetAmapService ==
    /\ Len(history) < MaxCalls
    /\ GetAmapService
    /\ history' = Append(history, [fn |-> "get_amap_service",
                                   out |-> Return(amap_service')])
    /\ UNCHANGED <<orch_vars, svc_vars, trip_vars, amap_vars, http_vars,
                   llm_instance, llm_instance_doubao, multi_agent_planner,
                   init_runs, race_vars>>

NextSingletons ==
    \/ CallGetLlm
    \/ CallGetLlmDouBao
    \/ CallResetLlm
    \/ CallGetTripPlannerAgent
    \/ CallGetAmapService

SpecSingletons == InitSingletons /\ [][NextSingletons]_vars

(***************************************************************************)
(* SpecCachedInit: get_trip_planner_agent called one or more times, and    *)
(* plan_trip called on the instance it returned.                           *)
(***************************************************************************)
InitCachedInit ==
    /\ request \in { r \in TripRequests :
                       /\ r.city = "Beijing" /\ r.travel_days = 2
                       /\ r.accommodation = "budget" }
    /\ response = <<>>
    /\ result = NoCall
    /\ provider_catalog \in TripCatalogs
    /\ amap_mcp_tool = None
    /\ mcp_tools_dict = Unset
    /\ pc = "idle"
    /\ planner_agent = FALSE
    /\ attraction_response = Unset
    /\ weather_response = Unset
    /\ hotel_response = Unset
    /\ failed = FALSE
    /\ calls = <<>>
    /\ AmapIdle
    /\ HttpIdle
    /\ SingleIdle
    /\ RaceIdle

\* some call of get_trip_planner_agent returned the orchestrator
PlannerObtained ==
    \E i \in 1..Len(history) :
        /\ history[i].fn = "get_trip_planner_agent"
        /\ Returned(history[i].out)

\* a step of plan_trip on the orchestrator that was returned
CachedInitPlanTrip ==
    /\ PlannerObtained
    /\ Next

NextCachedInit == CallGetTripPlannerAgent \/ CachedInitPlanTrip

SpecCachedInit == InitCachedInit /\ [][NextCachedInit]_vars

(***************************************************************************)
(* SpecRace: two tasks of one event loop calling init_mcp_tools            *)
(* (amap_service.py lines 50-55) at the same time.  A task runs until it   *)
(* awaits; the only await that suspends is get_tools() at line 37, between *)
(* the test of the cache (line 26) and the assignment to it (line 37).     *)
(***************************************************************************)
InitRace ==
    /\ request \in { r \in ParseRequests : r.start_date = FreeText }
    /\ response = <<>>
    /\ result = NoCall
    /\ SvcIdle
    /\ TripIdle
    /\ AmapIdle
    /\ HttpIdle
    /\ SingleIdle
    /\ RaceIdle

SetPc(t, where) == task_pc' = [task_pc EXCEPT ![t] = where]

\* lines 23-37: the cache is empty, the client is made and get_tools() awaited
TaskFindsCacheEmpty(t) ==
    /\ task_pc[t] = "idle"
    /\ amap_mcp_tool = None
    /\ SetPc(t, "connecting")
    /\ connects' = Append(connects, t)
    /\ UNCHANGED <<orch_vars, svc_vars, trip_vars, amap_vars, http_vars,
                   single_vars, task_tools, assigns>>

\* lines 23-26, 39 and 51-55: the cache is filled; nothing suspends
TaskFindsCacheFilled(t) ==
    /\ task_pc[t] = "idle"
    /\ amap_mcp_tool # None
    /\ SetPc(t, "done")
    /\ task_tools' = [task_tools EXCEPT ![t] = amap_mcp_tool]
    /\ mcp_tools_dict' = Lookup(amap_mcp_tool.tools)
    /\ UNCHANGED <<orch_vars, provider_catalog, amap_mcp_tool, trip_vars,
                   amap_vars, http_vars, single_vars, connects, assigns>>

\* a slip: the assignment of line 37 made only while the cache is empty
TaskGetToolsReturnsKeepsFirst(t) ==
    /\ task_pc[t] = "connecting"
    /\ \E catalog \in Catalogs :
          LET kept == IF amap_mcp_tool = None THEN [tools |-> catalog]
                      ELSE amap_mcp_tool
          IN  /\ amap_mcp_tool' = kept
              /\ task_tools' = [task_tools EXCEPT ![t] = [tools |-> catalog]]
              /\ mcp_tools_dict' = Lookup(kept.tools)
    /\ SetPc(t, "done")
    /\ assigns' = Append(assigns, t)
    /\ UNCHANGED <<orch_vars, provider_catalog, trip_vars, amap_vars,
                   http_vars, single_vars, connects>>

\* lines 37-39 and 51-55: get_tools() answers, the answer is assigned to the
\* cache and the lookup is built from it
TaskGetToolsReturns(t) ==
    /\ task_pc[t] = "connecting"
    /\ \E catalog \in Catalogs :
          /\ amap_mcp_tool' = [tools |-> catalog]
          /\ task_tools' = [task_tools EXCEPT ![t] = [tools |-> catalog]]
          /\ mcp_tools_dict' = Lookup(catalog)
    /\ SetPc(t, "done")
    /\ assigns' = Append(assigns, t)
    /\ UNCHANGED <<orch_vars, provider_catalog, trip_vars, amap_vars,
                   http_vars, single_vars, connects>>

\* line 37: get_tools() raises; nothing is assigned
TaskGetToolsFails(t) ==
    /\ task_pc[t] = "connecting"
    /\ SetPc(t, "raised")
    /\ UNCHANGED <<orch_vars, svc_vars, trip_vars, amap_vars, http_vars,
                   single_vars, task_tools, connects, assigns>>

NextRace ==
    \/ \E t \in Tasks : TaskFindsCacheEmpty(t)
    \/ \E t \in Tasks : TaskFindsCacheFilled(t)
    \/ \E t \in Tasks : TaskGetToolsReturns(t)
    \/ \E t \in Tasks : TaskGetToolsFails(t)

SpecRace == InitRace /\ [][NextRace]_vars

(***************************************************************************)
(* Claims about _parse_response and _create_fallback_plan.                 *)
(***************************************************************************)
ParseCalled == result.op = "_parse_response"
FallbackCalled == result.op = "_create_fallback_plan"

\* sub occurs at position i of s and nowhere in from..i-1
FirstAt(s, sub, from, i) ==
    /\ i >= from
    /\ OccursAt(s, sub, i)
    /\ \A j \in from..(i - 1) : ~OccursAt(s, sub, j)

\* sub occurs at position i of s and nowhere after it
LastAt(s, sub, i) ==
    /\ OccursAt(s, sub, i)
    /\ \A j \in (i + 1)..Len(s) : ~OccursAt(s, sub, j)

\* the characters of s at positions a .. b-1
Between(s, a, b) == SubSeq(s, a + 1, b)

Positions(s) == 0..Len(s)

\* C2 (as stated): _parse_response never raises; whenever extraction,
\* decoding or validation fails it returns the fallback plan of the request.
C2_ParseNeverRaises ==
    ParseCalled =>
        /\ Returned(result.out)
        /\ Raised(ParseBody(response)) =>
               result.out = Return(FallbackPlan(request))

DaysBeforeYear(y) ==
    365 * (y - 1) + ((y - 1) \div 4) - ((y - 1) \div 100) + ((y - 1) \div 400)

RECURSIVE DaysBeforeMonth(_, _)
DaysBeforeMonth(y, m) ==
    IF m = 1 THEN 0 ELSE DaysBeforeMonth(y, m - 1) + DaysInMonth(y, m - 1)

Ordinal(dt) == DaysBeforeYear(dt.y) + DaysBeforeMonth(dt.y, dt.m) + dt.d

LastOrdinal == Ordinal([y |-> MAXYEAR, m |-> 12, d |-> 31])

\* a fallback plan of the request: N days, day k is indexed k and dated
\* start_date + k days; city and the two date strings are the request's
IsFallbackOf(out, req) ==
    /\ Returned(out)
    /\ Len(out.value.days) = req.travel_days
    /\ \A k \in 0..(req.travel_days - 1) :
          LET day == out.value.days[k + 1]
          IN  /\ day.day_index = k
              /\ StrptimeOk(day.date)
              /\ Ordinal(Strptime(day.date))
                     = Ordinal(Strptime(req.start_date)) + k
    /\ out.value.city = req.city
    /\ out.value.start_date = req.start_date
    /\ out.value.end_date = req.end_date

C5_FallbackContent ==
    (FallbackCalled /\ Returned(result.out)) =>
        LET plan == result.out.value
        IN  /\ plan.weather_info = <<>>
            /\ plan.budget = None
            /\ \A n \in 1..Len(plan.days) :
                  LET day == plan.days[n]
                      i == n - 1
                  IN  /\ Len(day.attractions) = 2
                      /\ \A j \in 0..1 :
                            LET a == day.attractions[j + 1]
                            IN  /\ a.name = <<request.city, "attraction", j + 1>>
                                /\ a.visit_duration = 120
                                /\ a.location.longitude = 116400 + 10 * i + 5 * j
                                /\ a.location.latitude = 39900 + 10 * i + 5 * j
                      /\ Len(day.meals) = 3
                      /\ day.meals[1].type = "breakfast"
                      /\ day.meals[2].type = "lunch"
                      /\ day.meals[3].type = "dinner"
                      /\ day.transportation = request.transportation
                      /\ day.accommodation = request.accommodation
                      /\ day.hotel = None

\* the second day of a plan for a city other than Beijing: 116.41 / 39.91
\* and 116.415 / 39.915
C5_Witness ==
    /\ FallbackCalled
    /\ request.city = "Shanghai"
    /\ Returned(result.out)
    /\ Len(result.out.value.days) >= 2
    /\ result.out.value.days[2].attractions[1].location
           = [longitude |-> 116410, latitude |-> 39910]
    /\ result.out.value.days[2].attractions[2].location
           = [longitude |-> 116415, latitude |-> 39915]

(***************************************************************************)
(* Claims about plan_trip.                                                 *)
(***************************************************************************)
PlanTripEnded == pc = "done"

\* C1 (as stated): plan_trip never raises; it returns a TripPlan, and when a
\* step failed (an exception reached its handler, or the reply could not be
\* parsed) that plan is the fallback plan of the same request.
C1_PlanTripNeverRaises ==
    PlanTripEnded =>
        /\ Returned(result.out)
        /\ failed => result.out = Return(FallbackPlan(request))

\* C6 (as stated): every TripPlan plan_trip returns, parsed or fallback, has
\* as many days as the request's travel_days.
C6_DaysMatchRequest ==
    (PlanTripEnded /\ Returned(result.out)) =>
        Len(result.out.value.days) = request.travel_days

(***************************************************************************)
(* Claims about the mapping service.                                       *)
(***************************************************************************)
AsyncEnded == async_ret # None
SyncEnded == sync_ret # None

\* the tool an operation other than plan_route calls
ToolOf(op) ==
    CASE op = "get_weather" -> "maps_weather"
      [] op = "search_poi" -> "maps_text_search"
      [] op = "geocode" -> "maps_geo"
      [] op = "get_poi_detail" -> "maps_search_detail"

\* the degraded result of each operation
EmptyOf(op) ==
    CASE op = "get_weather" -> Return(EmptyList)
      [] op = "search_poi" -> Return(EmptyList)
      [] op = "plan_route" -> Return(EmptyList)
      [] op = "geocode" -> Return(None)
      [] op = "get_poi_detail" -> Return([empty |-> TRUE])

\* the routing tool each route_type stands for
ExpectedRouteTool(route_type) ==
    CASE route_type = "walking" -> "maps_direction_walking"
      [] route_type = "driving" -> "maps_direction_driving"
      [] route_type = "transit" -> "maps_direction_transit_integrated"
      [] OTHER -> "maps_direction_walking"

Missing(lookup, tool) == lookup = Unset \/ tool \notin lookup.names
Broken(reply) == reply.kind \in {"raise", "garbled"}

\* the lookup was never populated, a needed tool is absent from it, a tool
\* call raises, or a payload cannot be decoded
RemoteFailure(s, lookup) ==
    IF s.op = "plan_route"
    THEN \/ Missing(lookup, "maps_geo")
         \/ Missing(lookup, ExpectedRouteTool(s.route_type))
         \/ Broken(s.replies.origin)
         \/ Broken(s.replies.destination)
         \/ Broken(s.replies.route)
    ELSE Missing(lookup, ToolOf(s.op)) \/ Broken(s.reply)

\* C7: no operation of the asynchronous service raises, and on a remote or
\* parse failure get_weather, search_poi and plan_route return [], geocode
\* returns None and get_poi_detail returns {}.
C7_AsyncNeverRaises ==
    AsyncEnded =>
        /\ Returned(async_ret.out)
        /\ RemoteFailure(scenario, async_ret.lookup)
               => async_ret.out = EmptyOf(scenario.op)

\* plan_route on an initialised service whose second geocode call raises
C7_Witness ==
    /\ AsyncEnded
    /\ scenario.op = "plan_route"
    /\ async_ret.lookup = Lookup(AllTools)
    /\ scenario.replies.origin.kind = "json"
    /\ Len(async_ret.invoked) = 2
    /\ scenario.replies.destination.kind = "raise"
    /\ async_ret.out = Return(EmptyList)

\* C8 (as stated): get_weather, asynchronous or synchronous, returns [] when
\* the decoded payload has no "forecasts" field and when decoding throws.
WeatherDegrades(r) ==
    ( /\ r # None
      /\ scenario.op = "get_weather"
      /\ ~Missing(r.lookup, "maps_weather")
      /\ \/ scenario.reply.kind = "garbled"
         \/ /\ scenario.reply.kind = "json"
            /\ "forecasts" \notin DOMAIN scenario.reply.json )
        => r.out = Return(EmptyList)

C8_WeatherEmptyWithoutForecasts ==
    WeatherDegrades(async_ret) /\ WeatherDegrades(sync_ret)

\* a geocode reply from which plan_route can take a first candidate
GeoGood(reply) ==
    /\ reply.kind = "json"
    /\ "results" \in DOMAIN reply.json
    /\ reply.json.results.list # <<>>
    /\ \A n \in 1..Len(reply.json.results.list) :
          LET c == reply.json.results.list[n]
          IN  "location" \in DOMAIN c /\ c.location[1].num /\ c.location[2].num

\* text is the "lon,lat" of the first candidate of a geocode reply
IsFirstCandidate(text, reply) ==
    LET loc == reply.json.results.list[1].location
    IN  /\ Len(text) = 2
        /\ text[1].num /\ text[1].val = loc[1].val
        /\ text[2].num /\ text[2].val = loc[2].val

DirectionCalls(r) == { n \in 1..Len(r.invoked) : r.invoked[n].tool # "maps_geo" }

RouteDispatch(r) ==
    r # None =>
        /\ Cardinality(DirectionCalls(r)) <= 1
        /\ \A n \in DirectionCalls(r) :
              LET call == r.invoked[n]
              IN  /\ call.tool = ExpectedRouteTool(scenario.route_type)
                  /\ IsFirstCandidate(call.arguments.origin, scenario.replies.origin)
                  /\ IsFirstCandidate(call.arguments.destination,
                                      scenario.replies.destination)
                  /\ IF scenario.route_type = "transit"
                     THEN /\ DOMAIN call.arguments
                                = {"origin", "destination", "city1", "city2"}
                          /\ call.arguments.city1 = scenario.origin_city
                          /\ call.arguments.city2 = scenario.destination_city
                     ELSE DOMAIN call.arguments = {"origin", "destination"}
        /\ ( /\ ~Missing(r.lookup, "maps_geo")
             /\ ~Missing(r.lookup, ExpectedRouteTool(scenario.route_type))
             /\ GeoGood(scenario.replies.origin)
             /\ GeoGood(scenario.replies.destination) )
               => DirectionCalls(r) # {}

\* C9: plan_route, asynchronous or synchronous, calls the walking tool for
\* "walking", the driving tool for "driving", the integrated-transit tool
\* for "transit" and the walking tool for anything else; the arguments hold
\* city1 and city2 exactly when route_type is "transit", and otherwise only
\* origin and destination, the "lon,lat" of each first geocode candidate.
C9_RouteDispatch ==
    scenario.op = "plan_route" =>
        RouteDispatch(async_ret) /\ RouteDispatch(sync_ret)

\* an unrecognised route type reaching the walking tool without city names
C9_Witness ==
    /\ scenario.op = "plan_route"
    /\ scenario.route_type = "teleport"
    /\ AsyncEnded
    /\ Len(async_ret.invoked) = 3
    /\ async_ret.invoked[3].tool = "maps_direction_walking"
    /\ DOMAIN async_ret.invoked[3].arguments = {"origin", "destination"}
    /\ async_ret.out = Return(List(<< "path-1" >>))

\* C10 (as stated): for the same inputs and the same remote behaviour the
\* synchronous operation makes the same tool calls and ends as the
\* asynchronous one does, never raising where that one returns.
C10_SyncMirrorsAsync ==
    (AsyncEnded /\ SyncEnded /\ async_ret.lookup = sync_ret.lookup) =>
        /\ sync_ret.invoked = async_ret.invoked
        /\ sync_ret.out = async_ret.out

(***************************************************************************)
(* Claims about the POI API.                                               *)
(***************************************************************************)
SearchServed == http_request.route = "search" /\ http_pc = "done"

Is500With(prefix) ==
    /\ http_response.status = 500
    /\ http_response.detail[1] = prefix

\* C11 (as stated): when the mapping provider fails while GET /poi/search is
\* served (tool-catalog discovery, the maps_text_search invocation, or the
\* decoding of its payload), the response is HTTP 500 with a detail that
\* holds the search-failed text.
C11_RemoteFailureGives500 ==
    (SearchServed /\ remote_failures # {}) => Is500With(SearchFailedPrefix)

\* C11 (amended): a failed tool-catalog discovery gives HTTP 500 with a
\* detail that holds the search-failed text; a failed maps_text_search
\* invocation or decoding is swallowed by search_poi, and the response is
\* 200 with the success envelope around an empty sequence.
C11_DiscoveryFailureGives500 ==
    SearchServed =>
        /\ "discovery" \in remote_failures => Is500With(SearchFailedPrefix)
        /\ remote_failures \cap {"invocation", "decoding"} # {}
               => http_response = Ok([success |-> TRUE,
                                      message |-> "search succeeded",
                                      data |-> EmptyList])

\* the provider failing during discovery on the first request served
C11_Witness ==
    /\ SearchServed
    /\ remote_failures = {"discovery"}
    /\ http_response = HttpException(500, SearchFailedPrefix, "ToolException")
    /\ amap_mcp_tool = None

PhotoServed == http_request.route = "photo" /\ http_pc = "done"

\* C12: the photo endpoint queries name + ' China landmark' first; it makes a
\* second query, with the bare name, exactly when the first returned no URL;
\* it never makes more than two; when both return nothing the response is
\* the success envelope with photo_url absent, and when the first returns a
\* URL that URL is the one in the response.
C12_PhotoFallbackQuery ==
    http_request.route = "photo" =>
        LET n == Len(photo_queries)
            name == http_request.name
        IN  /\ n <= 2
            /\ n >= 1 => photo_queries[1].query = LandmarkQuery(name)
            /\ n = 2 => /\ photo_queries[2].query = BareQuery(name)
                        /\ photo_queries[2].query # photo_queries[1].query
                        /\ photo_queries[1].out = Return(None)
            /\ http_pc = "done" =>
                  /\ n >= 1
                  /\ photo_queries[1].out = Return(None) => n = 2
                  /\ (n = 2 /\ photo_queries[2].out = Return(None))
                        => http_response = PhotoEnvelope(name, None)
                  /\ (Returned(photo_queries[1].out)
                          /\ photo_queries[1].out.value \in PhotoUrls)
                        => /\ n = 1
                           /\ http_response =
                                  PhotoEnvelope(name, photo_queries[1].out.value)

\* both queries made and both answered with nothing
C12_Witness ==
    /\ PhotoServed
    /\ Len(photo_queries) = 2
    /\ photo_queries[1].out = Return(None)
    /\ photo_queries[2].out = Return(None)
    /\ http_response.status = 200
    /\ http_response.body.data.photo_url = None

(***************************************************************************)
(* Claims about the singletons.                                            *)
(***************************************************************************)
Accessors ==
    { "get_llm", "get_llm_DouBao", "get_amap_service", "get_trip_planner_agent" }

ClassOf(fn) ==
    CASE fn = "get_llm" -> "HelloAgentsLLM"
      [] fn = "get_llm_DouBao" -> "ChatOpenAI"
      [] fn = "get_amap_service" -> "AmapService"
      [] fn = "get_trip_planner_agent" -> "MultiAgentTripPlanner"

\* call number i was a call of fn that returned
Succeeded(fn, i) ==
    /\ i \in 1..Len(history)
    /\ history[i].fn = fn
    /\ Returned(history[i].out)

ResetAt(k) == k \in 1..Len(history) /\ history[k].fn = "reset_llm"
ResetBetween(i, j) == \E k \in (i + 1)..(j - 1) : ResetAt(k)
Resets == Cardinality({ k \in 1..Len(history) : ResetAt(k) })

\* C13: two successful calls of the same accessor (for get_llm, with no
\* reset_llm between them) return the identical instance, and the resource
\* behind an accessor that succeeded was constructed exactly once, as
\* initialize_agents was run exactly once for get_trip_planner_agent.
C13_SingletonsIdempotent ==
    /\ \A fn \in Accessors : \A i, j \in 1..Len(history) :
          ( /\ i < j
            /\ Succeeded(fn, i) /\ Succeeded(fn, j)
            /\ fn = "get_llm" => ~ResetBetween(i, j) )
              => history[i].out.value = history[j].out.value
    /\ \A fn \in Accessors \ {"get_llm"} :
          /\ constructed[ClassOf(fn)] <= 1
          /\ (\E i \in 1..Len(history) : Succeeded(fn, i))
                => constructed[ClassOf(fn)] = 1
    /\ constructed["HelloAgentsLLM"] <= 1 + Resets
    /\ ((\E i \in 1..Len(history) : Succeeded("get_llm", i)) /\ Resets = 0)
          => constructed["HelloAgentsLLM"] = 1
    /\ init_runs <= 1
    /\ (\E i \in 1..Len(history) : Succeeded("get_trip_planner_agent", i))
          => init_runs = 1

\* the orchestrator and the generic handle each fetched twice
C13_Witness ==
    /\ Len(history) = 4
    /\ Succeeded("get_trip_planner_agent", 1)
    /\ Succeeded("get_trip_planner_agent", 2)
    /\ history[1].out = history[2].out
    /\ Succeeded("get_llm", 3) /\ Succeeded("get_llm", 4)
    /\ history[3].out = history[4].out
    /\ init_runs = 1
    /\ constructed["MultiAgentTripPlanner"] = 1
    /\ constructed["HelloAgentsLLM"] = 1

\* the last call made was reset_llm
JustReset ==
    /\ Len(history') = Len(history) + 1
    /\ history'[Len(history')].fn = "reset_llm"

\* C14: reset_llm clears the generic handle's cache and nothing else: a
\* get_llm that succeeds after it returns an instance distinct from every
\* one returned before it, and get_llm_DouBao returns the same instance
\* before and after it; no other singleton changes when reset_llm runs.
C14_ResetClearsOnlyGeneric ==
    /\ [](\A i, k, j \in 1..Len(history) :
            (i < k /\ k < j /\ ResetAt(k)) =>
                /\ (Succeeded("get_llm", i) /\ Succeeded("get_llm", j))
                      => history[i].out.value # history[j].out.value
                /\ (Succeeded("get_llm_DouBao", i)
                        /\ Succeeded("get_llm_DouBao", j))
                      => history[i].out.value = history[j].out.value)
    /\ [][JustReset =>
            /\ llm_instance' = None
            /\ UNCHANGED <<llm_instance_doubao, amap_service,
                           multi_agent_planner, planner_agent, constructed,
                           init_runs, amap_mcp_tool>>]_vars

\* both handles fetched, reset_llm, both handles fetched again
C14_Witness ==
    /\ Len(history) = 5
    /\ Succeeded("get_llm", 1)
    /\ Succeeded("get_llm_DouBao", 2)
    /\ ResetAt(3)
    /\ Succeeded("get_llm", 4)
    /\ Succeeded("get_llm_DouBao", 5)
    /\ history[4].out.value # history[1].out.value
    /\ history[5].out.value = history[2].out.value
    /\ constructed["HelloAgentsLLM"] = 2
    /\ constructed["ChatOpenAI"] = 1

(***************************************************************************)
(* Claims about the steps of plan_trip.                                    *)
(***************************************************************************)
StepOrder ==
    << "init_mcp_tools", "search_poi", "get_weather", "search_poi",
       "planner_agent.invoke" >>

AgentInvoked ==
    \E n \in 1..Len(calls) : calls[n].step = "planner_agent.invoke"

\* C15: within one plan_trip call the remote steps complete in the order
\* mapping initialization, attraction search, weather, hotel search, agent;
\* the agent is invoked at most once, only after the three mapping results
\* were obtained, and no mapping call is made after it.
C15_StepsInOrder ==
    /\ [](/\ Len(calls) <= Len(StepOrder)
          /\ \A n \in 1..Len(calls) : calls[n].step = StepOrder[n]
          /\ Len(calls) >= 4 =>
                /\ calls[4].keywords = "{request.accommodation}hotel"
          /\ AgentInvoked =>
                /\ attraction_response # Unset
                /\ weather_response # Unset
                /\ hotel_response # Unset
                /\ pc = "done")
    /\ [][\/ calls' = calls
          \/ /\ ~AgentInvoked
             /\ Len(calls') = Len(calls) + 1
             /\ SubSeq(calls', 1, Len(calls)) = calls]_vars

\* a plan_trip call that went through all five steps
C15_Witness ==
    /\ pc = "done"
    /\ Len(calls) = 5
    /\ calls[5].step = "planner_agent.invoke"
    /\ ~failed
    /\ Returned(result.out)

\* C16: the attraction search uses the first entry of request.preferences,
\* or the generic attraction keyword when there is none; the hotel search
\* uses one fixed literal, whatever request.accommodation is; both searches
\* are scoped to request.city.
C16_SearchKeywords ==
    \A n \in 1..Len(calls) :
        calls[n].step = "search_poi" =>
            /\ calls[n].city = request.city
            /\ n \in {2, 4}
            /\ n = 2 => calls[n].keywords =
                            IF Len(request.preferences) > 0
                            THEN Head(request.preferences)
                            ELSE "attraction"
            /\ n = 4 => /\ calls[n].keywords = "{request.accommodation}hotel"
                        /\ \A a \in Accommodations :
                              calls[n].keywords
                                 = HotelKeywords([request EXCEPT !.accommodation = a])

\* both searches made for a request that names preferences
C16_Witness ==
    /\ Len(calls) >= 4
    /\ request.preferences # <<>>
    /\ request.accommodation = "luxury"
    /\ calls[2].keywords = "food"
    /\ calls[4].keywords = "{request.accommodation}hotel"
    /\ calls[2].city = request.city /\ calls[4].city = request.city

(***************************************************************************)
(* Claims about concurrent first use of the tool-list cache.               *)
(***************************************************************************)
Members(seq) == { seq[n] : n \in 1..Len(seq) }
LastOf(seq) == seq[Len(seq)]

\* C17: nothing keeps a second task from finding the cache empty while a
\* first one is still enumerating the catalog; each task that found it
\* empty connects and, when answered, assigns the cache, so that after both
\* finish the cache holds the catalog of the task that assigned last.
C17_LastAssignmentWins ==
    /\ Len(connects) = Cardinality(Members(connects))
    /\ Members(assigns) \subseteq Members(connects)
    /\ \A t \in Tasks :
          /\ task_pc[t] = "connecting" => t \in Members(connects) \ Members(assigns)
          /\ t \in Members(assigns) => task_pc[t] = "done"
    /\ (amap_mcp_tool = None) <=> (assigns = <<>>)
    /\ assigns # <<>> =>
          /\ amap_mcp_tool = task_tools[LastOf(assigns)]
          /\ mcp_tools_dict = Lookup(task_tools[LastOf(assigns)].tools)

\* both tasks connected, were answered different catalogs, and the cache
\* holds the second one's
C17_Witness ==
    /\ connects = << "task_a", "task_b" >>
    /\ assigns = << "task_a", "task_b" >>
    /\ \A t \in Tasks : task_pc[t] = "done"
    /\ task_tools["task_a"] # task_tools["task_b"]
    /\ amap_mcp_tool = task_tools["task_b"]

(***************************************************************************)
(* Claims about a failed initialization of the orchestrator.               *)
(***************************************************************************)
\* call number i of get_trip_planner_agent ended with initialize_agents raising
InitFailedAt(i) ==
    /\ history[i].fn = "get_trip_planner_agent"
    /\ history[i].out = Raise("AgentError")

\* call number i ended with the constructor raising
CtorFailedAt(i) ==
    /\ history[i].fn = "get_trip_planner_agent"
    /\ Raised(history[i].out)
    /\ history[i].out.exc \in {"LLMError", "OpenAIError"}

\* C18 (as stated): when initialize_agents raises in the first call of
\* get_trip_planner_agent the instance is cached all the same: every later
\* call returns that instance without running initialize_agents again, the
\* instance has no planner agent, and every plan_trip call on it returns the
\* fallback plan; when the constructor raises nothing is cached and the
\* next call constructs again.
C18_FailedInitCached ==
    \A i \in 1..Len(history) :
        /\ InitFailedAt(i) =>
              /\ multi_agent_planner # None
              /\ ~planner_agent
              /\ init_runs = 1
              /\ constructed["MultiAgentTripPlanner"] = 1
              /\ \A j \in (i + 1)..Len(history) :
                    history[j].out = Return(multi_agent_planner)
              /\ pc = "done" => result.out = Return(FallbackPlan(request))
        /\ CtorFailedAt(i) =>
              /\ \A k \in 1..i : Raised(history[k].out)
              /\ i = Len(history) =>
                    /\ multi_agent_planner = None
                    /\ constructed["MultiAgentTripPlanner"] = 0
                    /\ init_runs = 0
              /\ (i < Len(history) /\ Returned(history[i + 1].out)) =>
                    /\ constructed["MultiAgentTripPlanner"] = 1
                    /\ init_runs = 1

\* initialize_agents raised in the first call, the second call returned the
\* cached instance, and plan_trip on it returned the fallback plan
C18_Witness ==
    /\ Len(history) = 2
    /\ InitFailedAt(1)
    /\ history[2].out = Return(multi_agent_planner)
    /\ init_runs = 1
    /\ pc = "done"
    /\ Len(calls) = 4
    /\ result.out = Return(FallbackPlan(request))

====
